---------------------------- MODULE Spec2Model ----------------------------
(***************************************************************************)
(* Model of abc-tab-arranger.py: ABC text -> tokens -> chord tab / melody  *)
(* tab, plus the chord library.                                            *)
(*                                                                         *)
(* Text is a sequence of one-character strings (<<"0","2","2">> is the     *)
(* Python string "022"); a list of strings is a sequence of such texts.    *)
(* Python's None is the empty tuple, a present value v is <<v>>.           *)
(***************************************************************************)
EXTENDS Integers, Sequences, FiniteSets, TLC

VARIABLES fn, arg, ret,          \* the core function last called, its input, its result
          chords, disk,          \* ChordLibrary.chords and the saved chords.json
          tokens, mapping,       \* score.tokens and the song's note -> chord mapping
          pc, gt                 \* generate_tab: position and loop state

vars == <<fn, arg, ret, chords, disk, tokens, mapping, pc, gt>>

None == <<>>
Some(v) == <<v>>

\* ------------------------------------------------------------ bounds
MaxMidi == 100
MaxOctMarks == 3
MaxJunkLen == 2
MaxFields == 6
MaxTextLen == 5
MaxBars == 7
MaxSongLen == 4

\* ------------------------------------------------------------ characters
Digits == {"0", "1", "2", "3", "4", "5", "6", "7", "8", "9"}
NoteLetters == {"A", "B", "C", "D", "E", "F", "G", "a", "b", "c", "d", "e", "f", "g"}
Accidentals == {"^", "_", "="}
OctMarks == {"'", ","}
NL == "\n"
CR == "\r"
FF == "\f"
\* U+000B (vertical tab) and U+001C..U+001F (file, group, record, unit separator),
\* written as the characters themselves
VT == ""
FS == ""
GS == ""
RS == ""
US == ""
\* what str.isspace, str.strip and the regex class \s take as whitespace, and where
\* str.splitlines breaks a text, among the ASCII characters
Whitespace == {" ", NL, "\t", CR, FF, VT, FS, GS, RS, US}
LineBreaks == {NL, CR, FF, VT, FS, GS, RS}

SeqsUpTo(S, n) == UNION {[1..k -> S] : k \in 0..n}

RECURSIVE Count(_, _)
Count(s, ch) == IF s = <<>> THEN 0
                ELSE (IF Head(s) = ch THEN 1 ELSE 0) + Count(Tail(s), ch)

\* ------------------------------------------------------------ melody tab: pitch
OPEN_STRING_MIDI == [s \in {"E", "A", "D", "G", "B", "e"} |->
    CASE s = "E" -> 40 [] s = "A" -> 45 [] s = "D" -> 50
      [] s = "G" -> 55 [] s = "B" -> 59 [] s = "e" -> 64]

STRINGS_HIGH_TO_LOW == <<"e", "B", "G", "D", "A", "E">>

ABC_BASE_MIDI == [n \in NoteLetters |->
    CASE n = "C" -> 60 [] n = "D" -> 62 [] n = "E" -> 64 [] n = "F" -> 65
      [] n = "G" -> 67 [] n = "A" -> 69 [] n = "B" -> 71
      [] n = "c" -> 72 [] n = "d" -> 74 [] n = "e" -> 76 [] n = "f" -> 77
      [] n = "g" -> 79 [] n = "a" -> 81 [] n = "b" -> 83]

\* ACCIDENTAL_OFFSET.get(acc, 0); acc is <<>> when the token has no accidental
ACCIDENTAL_OFFSET(acc) ==
    CASE acc = <<"^">> -> 1 [] acc = <<"_">> -> -1 [] acc = <<"=">> -> 0 [] OTHER -> 0

\* STRINGS_HIGH_TO_LOW.index(s)
StringIndex(s) == CHOOSE k \in 1..Len(STRINGS_HIGH_TO_LOW) :
                     /\ STRINGS_HIGH_TO_LOW[k] = s
                     /\ \A j \in 1..(k - 1) : STRINGS_HIGH_TO_LOW[j] # s

\* end of the longest run of octave marks starting at position p (the group [',]*)
RECURSIVE OctEnd(_, _)
OctEnd(token, p) == IF p <= Len(token) /\ token[p] \in OctMarks
                    THEN OctEnd(token, p + 1) ELSE p

\* the loop "for ch in octmod" of abc_note_to_midi
RECURSIVE ApplyOct_wrong(_, _)
ApplyOct_wrong(base, octmod) ==
    IF octmod = <<>> THEN base
    ELSE ApplyOct_wrong(base + 12, Tail(octmod))

RECURSIVE ApplyOct(_, _)
ApplyOct(base, octmod) ==
    IF octmod = <<>> THEN base
    ELSE ApplyOct(IF Head(octmod) = "'" THEN base + 12
                  ELSE IF Head(octmod) = "," THEN base - 12 ELSE base,
                  Tail(octmod))

\* re.match(r"(?P<acc>\^|_|=)?(?P<note>[A-Ga-g])(?P<oct>[',]*)", token): a prefix match
abc_note_to_midi(token) ==
    LET hasAcc == Len(token) >= 1 /\ token[1] \in Accidentals
        p == IF hasAcc THEN 2 ELSE 1
    IN IF ~(Len(token) >= p /\ token[p] \in NoteLetters) THEN None
       ELSE LET acc == IF hasAcc THEN <<token[1]>> ELSE <<>>
                note == token[p]
                octmod == SubSeq(token, p + 1, OctEnd(token, p + 1) - 1)
            IN Some(ApplyOct(ABC_BASE_MIDI[note], octmod) + ACCIDENTAL_OFFSET(acc))

\* one iteration of "for s in STRINGS_HIGH_TO_LOW" in choose_fret
FretStep_wrong(best, s, midi) ==
    LET fret == midi - OPEN_STRING_MIDI[s]
    IN IF 0 <= fret /\ fret <= 24
       THEN IF \/ best = None
               \/ fret > best[1].fret
               \/ (fret = best[1].fret /\ StringIndex(s) < StringIndex(best[1].string))
            THEN Some([string |-> s, fret |-> fret]) ELSE best
       ELSE best

FretStep(best, s, midi) ==
    LET fret == midi - OPEN_STRING_MIDI[s]
    IN IF 0 <= fret /\ fret <= 24
       THEN IF \/ best = None
               \/ fret < best[1].fret
               \/ (fret = best[1].fret /\ StringIndex(s) < StringIndex(best[1].string))
            THEN Some([string |-> s, fret |-> fret]) ELSE best
       ELSE best

RECURSIVE FretLoop(_, _, _)
FretLoop(best, k, midi) ==
    IF k > Len(STRINGS_HIGH_TO_LOW) THEN best
    ELSE FretLoop(FretStep(best, STRINGS_HIGH_TO_LOW[k], midi), k + 1, midi)

choose_fret(midi) == FretLoop(None, 1, midi)

\* ------------------------------------------------------------ inputs of the pitch functions
MidiRange == (0 - MaxMidi)..MaxMidi

\* accidental? letter octave-marks*
PitchTokens == {a \o <<l>> \o o : a \in {<<>>} \cup {<<c>> : c \in Accidentals},
                                  l \in NoteLetters,
                                  o \in SeqsUpTo(OctMarks, MaxOctMarks)}

\* short texts, some with no letter, some with junk around one
JunkTokens == SeqsUpTo({"^", "C", "'", "2", "H", "|"}, MaxJunkLen)

\* ------------------------------------------------------------ state machine: pitch functions
\* everything outside the function under examination is at rest
Idle == /\ chords = <<>> /\ disk = <<>> /\ tokens = <<>> /\ mapping = <<>>
        /\ gt = <<>>

\* a call of a core function is pending: its input is drawn, its result not computed
InitPitch ==
    /\ \/ fn = "abc_note_to_midi" /\ arg \in PitchTokens \cup JunkTokens
       \/ fn = "choose_fret" /\ arg \in MidiRange
    /\ pc = "call" /\ ret = None
    /\ Idle

Call_abc_note_to_midi ==
    /\ pc = "call" /\ fn = "abc_note_to_midi"
    /\ ret' = abc_note_to_midi(arg)
    /\ pc' = "return"
    /\ UNCHANGED <<fn, arg, chords, disk, tokens, mapping, gt>>

Call_choose_fret ==
    /\ pc = "call" /\ fn = "choose_fret"
    /\ ret' = choose_fret(arg)
    /\ pc' = "return"
    /\ UNCHANGED <<fn, arg, chords, disk, tokens, mapping, gt>>

NextPitch == Call_abc_note_to_midi \/ Call_choose_fret

SpecPitch == InitPitch /\ [][NextPitch]_vars

\* ------------------------------------------------------------ claims: pitch
\* strings on which the pitch p has a fret within 0..24
InRange(p) == {s \in DOMAIN OPEN_STRING_MIDI :
                 0 <= p - OPEN_STRING_MIDI[s] /\ p - OPEN_STRING_MIDI[s] <= 24}

\* C1: choose_fret(p) returns none exactly when no string has a fret in 0..24;
\* otherwise it returns a string in range with fret p - open, no string in range
\* has a smaller fret, a string in range with the same fret is not higher pitched,
\* and the fret is within 0..24.
C1_ChooseFretMinimal ==
    (pc = "return" /\ fn = "choose_fret") =>
       /\ (ret = None) <=> (InRange(arg) = {})
       /\ ret # None =>
            /\ ret[1].string \in InRange(arg)
            /\ ret[1].fret = arg - OPEN_STRING_MIDI[ret[1].string]
            /\ ret[1].fret \in 0..24
            /\ \A s \in InRange(arg) :
                  /\ arg - OPEN_STRING_MIDI[s] >= ret[1].fret
                  /\ (arg - OPEN_STRING_MIDI[s] = ret[1].fret
                        => OPEN_STRING_MIDI[s] <= OPEN_STRING_MIDI[ret[1].string])

\* C1 witness: ABC 'C' = 60, in range on five strings, resolves to string B fret 1
C1_Witness ==
    /\ pc = "return" /\ fn = "choose_fret" /\ arg = 60
    /\ Cardinality(InRange(arg)) = 5
    /\ ret = Some([string |-> "B", fret |-> 1])

\* the parts of a well-formed pitch token: accidental?, letter, octave marks
WellFormed(t) == \E p \in 1..Len(t) :
    /\ t[p] \in NoteLetters
    /\ p \in {1, 2}
    /\ p = 2 => t[1] \in Accidentals
    /\ \A k \in (p + 1)..Len(t) : t[k] \in OctMarks

LetterPos(t) == CHOOSE p \in 1..Len(t) : t[p] \in NoteLetters

UpperBase(l) == CASE l = "C" -> 60 [] l = "D" -> 62 [] l = "E" -> 64 [] l = "F" -> 65
                  [] l = "G" -> 67 [] l = "A" -> 69 [] l = "B" -> 71

ToUpper(l) == CASE l = "c" -> "C" [] l = "d" -> "D" [] l = "e" -> "E" [] l = "f" -> "F"
                [] l = "g" -> "G" [] l = "a" -> "A" [] l = "b" -> "B" [] OTHER -> l

LetterBase(l) == IF l \in {"A", "B", "C", "D", "E", "F", "G"} THEN UpperBase(l)
                 ELSE UpperBase(ToUpper(l)) + 12

\* C3: a pitch token maps to base(letter) + 12 * #' - 12 * #, + accidental offset,
\* lowercase base = uppercase base + 12; a token without a letter A-G/a-g gives none.
C3_NoteToMidiFormula ==
    (pc = "return" /\ fn = "abc_note_to_midi") =>
       /\ WellFormed(arg) =>
            ret = Some(LetterBase(arg[LetterPos(arg)])
                       + 12 * Count(arg, "'") - 12 * Count(arg, ",")
                       + (IF arg[1] = "^" THEN 1 ELSE IF arg[1] = "_" THEN -1 ELSE 0))
       /\ (\A k \in 1..Len(arg) : arg[k] \notin NoteLetters) => ret = None

\* C3 witness: _b', : flat, lowercase, one mark up and one down -> 83 - 1 = 82;
C3_Witness ==
    /\ pc = "return" /\ fn = "abc_note_to_midi"
    /\ arg = <<"_", "b", "'", ",">>
    /\ ret = Some(82)

\* ------------------------------------------------------------ text helpers
UpperChars == <<"A", "B", "C", "D", "E", "F", "G", "H", "I", "J", "K", "L", "M",
                "N", "O", "P", "Q", "R", "S", "T", "U", "V", "W", "X", "Y", "Z">>
LowerChars == <<"a", "b", "c", "d", "e", "f", "g", "h", "i", "j", "k", "l", "m",
                "n", "o", "p", "q", "r", "s", "t", "u", "v", "w", "x", "y", "z">>

\* str.lower() of one character, and of a text
LowerChar(c) == IF \E k \in 1..26 : UpperChars[k] = c
                THEN LowerChars[CHOOSE k \in 1..26 : UpperChars[k] = c] ELSE c
Lower(s) == [k \in 1..Len(s) |-> LowerChar(s[k])]

\* str.replace(ch, '')
RECURSIVE Remove(_, _)
Remove(s, ch) == IF s = <<>> THEN <<>>
                 ELSE (IF Head(s) = ch THEN <<>> ELSE <<Head(s)>>) \o Remove(Tail(s), ch)

\* str.lstrip(), str.rstrip(), str.strip()
RECURSIVE LStrip(_)
LStrip(s) == IF s # <<>> /\ Head(s) \in Whitespace THEN LStrip(Tail(s)) ELSE s
RECURSIVE RStrip(_)
RStrip(s) == IF s # <<>> /\ s[Len(s)] \in Whitespace
             THEN RStrip(SubSeq(s, 1, Len(s) - 1)) ELSE s
Strip(s) == RStrip(LStrip(s))

\* str.isdigit()
IsDigit(s) == s # <<>> /\ \A k \in 1..Len(s) : s[k] \in Digits

\* the parts of s between the characters of seps (str.split(sep) for one separator);
\* with skipWs, whitespace right after a separator belongs to the separator,
\* as in re.split(r"[,/|]\s*", s)
RECURSIVE SplitOn(_, _, _, _)
SplitOn(s, seps, skipWs, cur) ==
    IF s = <<>> THEN <<cur>>
    ELSE IF Head(s) \in seps
         THEN <<cur>> \o SplitOn(IF skipWs THEN LStrip(Tail(s)) ELSE Tail(s),
                                 seps, skipWs, <<>>)
         ELSE SplitOn(Tail(s), seps, skipWs, Append(cur, Head(s)))

\* [p.strip().lower() for p in parts if p.strip()]
RECURSIVE StripLowerNonEmpty(_)
StripLowerNonEmpty(parts) ==
    IF parts = <<>> THEN <<>>
    ELSE (IF Strip(Head(parts)) # <<>> THEN <<Lower(Strip(Head(parts)))>> ELSE <<>>)
         \o StripLowerNonEmpty(Tail(parts))

\* end of the run of digits starting at position p
RECURSIVE DigitsEnd(_, _)
DigitsEnd(s, p) == IF p <= Len(s) /\ s[p] \in Digits THEN DigitsEnd(s, p + 1) ELSE p

\* re.findall(r"x|\d+", s) from position p
RECURSIVE FindXOrDigits(_, _)
FindXOrDigits(s, p) ==
    IF p > Len(s) THEN <<>>
    ELSE IF s[p] = "x" THEN <<<<"x">>>> \o FindXOrDigits(s, p + 1)
    ELSE IF s[p] \in Digits
         THEN <<SubSeq(s, p, DigitsEnd(s, p) - 1)>> \o FindXOrDigits(s, DigitsEnd(s, p))
    ELSE FindXOrDigits(s, p + 1)

\* ------------------------------------------------------------ chord shapes
ShapeSeparators == {",", "/", "|"}

\* list(s.lower()) of the compact branch
CompactList(s) == [k \in 1..Len(s) |-> <<LowerChar(s[k])>>]

\* ChordShape._split_shape without its first branch
_split_shape_nocompact(shape) ==
    IF \E k \in 1..Len(shape) : shape[k] \in ShapeSeparators
    THEN StripLowerNonEmpty(SplitOn(shape, ShapeSeparators, TRUE, <<>>))
    ELSE IF \E k \in 1..Len(shape) : shape[k] = " "
    THEN StripLowerNonEmpty(SplitOn(shape, {" "}, FALSE, <<>>))
    ELSE FindXOrDigits(Lower(shape), 1)

\* ChordShape._split_shape
_split_shape(shape) ==
    LET s == Remove(Remove(shape, "-"), " ")
    IN IF Len(s) = 6 /\ \A k \in 1..6 : s[k] \in Digits \cup {"x", "X"}
       THEN CompactList(s)
       ELSE IF \E k \in 1..Len(shape) : shape[k] \in ShapeSeparators
       THEN StripLowerNonEmpty(SplitOn(shape, ShapeSeparators, TRUE, <<>>))
       ELSE IF \E k \in 1..Len(shape) : shape[k] = " "
       THEN StripLowerNonEmpty(SplitOn(shape, {" "}, FALSE, <<>>))
       ELSE FindXOrDigits(Lower(shape), 1)

\* ChordShape.validate: "ok", or the ValueError raised
validate(shape) ==
    LET groups == _split_shape(shape)
    IN IF Len(groups) # 6 THEN "ValueError: exactly 6 strings"
       ELSE IF \E k \in 1..6 : ~(IsDigit(groups[k]) \/ Lower(groups[k]) = <<"x">>)
       THEN "ValueError: only digits and x"
       ELSE "ok"

\* ------------------------------------------------------------ inputs of the shape functions
RECURSIVE Join(_, _)
Join(parts, sep) == IF parts = <<>> THEN <<>>
                    ELSE IF Len(parts) = 1 THEN parts[1]
                    ELSE parts[1] \o sep \o Join(Tail(parts), sep)

\* six one-character entries, written compact, with dashes and with spaces
ShapeEntryChars == {"0", "2", "x", "X"}
SixEntryTexts == {Join([k \in 1..6 |-> <<e[k]>>], sep) :
                     e \in [1..6 -> ShapeEntryChars],
                     sep \in {<<>>, <<"-">>, <<" ">>}}

\* fields of one or two characters, written with each separator
ShapeFields == {<<"0">>, <<"1", "0">>, <<"x">>}
FieldSeparators == {<<"-">>, <<" ">>, <<",">>, <<",", " ">>, <<"/">>, <<"|">>}
FieldTexts == {Join(f, sep) :
                  f \in UNION {[1..k -> ShapeFields] : k \in (MaxFields - 2)..MaxFields},
                  sep \in FieldSeparators}

ShapeExamples == { <<"0", "2", "2", "1", "0", "0">>,
                   <<"0", "-", "2", "-", "2", "-", "1", "-", "0", "-", "0">>,
                   <<"0", " ", "2", " ", "2", " ", "1", " ", "0", " ", "0">>,
                   <<"1", "0", " ", "2", " ", "2", " ", "1", " ", "0">>,
                   <<"x", "3", "2", "0", "1", "0">>,
                   <<"x", "3", "2", "0", "1">>,
                   <<"0", "2", "2", "1", "0", "h">>,
                   <<"3", ",", "2", ",", "h", ",", "0", ",", "0", ",", "3">>,
                   <<"0", " ", "2", " ", "2", " ", "1", " ", "0", " ", "0", CR>>,
                   <<"0", ",", CR, "2", ",", "2", ",", "1", ",", "0", ",", "0">>,
                   <<"0", " ", FF, " ", "2", " ", "2", " ", "1", " ", "0", " ", "0", VT>>,
                   <<"0", "2", "2", "1", "0", CR>>,
                   <<>> }

ShapeTexts == SixEntryTexts \cup FieldTexts \cup ShapeExamples

\* ------------------------------------------------------------ state machine: shape functions
InitShape ==
    /\ fn \in {"_split_shape", "validate"}
    /\ arg \in ShapeTexts
    /\ pc = "call" /\ ret = None
    /\ Idle

Call_split_shape ==
    /\ pc = "call" /\ fn = "_split_shape"
    /\ ret' = _split_shape(arg)
    /\ pc' = "return"
    /\ UNCHANGED <<fn, arg, chords, disk, tokens, mapping, gt>>

Call_validate ==
    /\ pc = "call" /\ fn = "validate"
    /\ ret' = validate(arg)
    /\ pc' = "return"
    /\ UNCHANGED <<fn, arg, chords, disk, tokens, mapping, gt>>

NextShape == Call_split_shape \/ Call_validate

SpecShape == InitShape /\ [][NextShape]_vars

\* ------------------------------------------------------------ claims: shapes
EntryChar(c) == c \in Digits \cup {"x", "X"}
Canon(c) == IF c = "X" THEN "x" ELSE c

\* six one-character entries with nothing between them
IsCompact(t) == Len(t) = 6 /\ \A k \in 1..6 : EntryChar(t[k])
\* six one-character entries with the separator sep between neighbours
IsSeparated(t, sep) == /\ Len(t) = 11
                       /\ \A k \in 1..6 : EntryChar(t[2 * k - 1])
                       /\ \A k \in 1..5 : t[2 * k] = sep

\* C6: six single-character entries (digit or mute marker) normalize to the same
\* six-entry list whether written compact, dash-separated or space-separated:
\* the list of the entries themselves, the mute marker in lower case.
C6_ThreeNotationsAgree ==
    (pc = "return" /\ fn = "_split_shape") =>
       /\ IsCompact(arg) => ret = [k \in 1..6 |-> <<Canon(arg[k])>>]
       /\ (IsSeparated(arg, "-") \/ IsSeparated(arg, " "))
             => ret = [k \in 1..6 |-> <<Canon(arg[2 * k - 1])>>]

\* C6 witness: '0-2-2-1-0-0' gives ['0','2','2','1','0','0']
C6_Witness ==
    /\ pc = "return" /\ fn = "_split_shape"
    /\ arg = <<"0", "-", "2", "-", "2", "-", "1", "-", "0", "-", "0">>
    /\ ret = << <<"0">>, <<"2">>, <<"2">>, <<"1">>, <<"0">>, <<"0">> >>

HasAny(t, S) == \E k \in 1..Len(t) : t[k] \in S

\* the non-empty fields of a text between its separators
RECURSIVE NonEmpty(_)
NonEmpty(parts) == IF parts = <<>> THEN <<>>
                   ELSE (IF Head(parts) # <<>> THEN <<Head(parts)>> ELSE <<>>)
                        \o NonEmpty(Tail(parts))
SeparatedFields(t) ==
    IF HasAny(t, ShapeSeparators)
    THEN NonEmpty(SplitOn(t, ShapeSeparators \cup Whitespace, FALSE, <<>>))
    ELSE NonEmpty(SplitOn(t, Whitespace, FALSE, <<>>))

\* C7: one character per string applies only to a raw text of exactly six
\* characters without separators; a text with comma/slash/bar separators or with
\* spaces is split into its fields, so it is accepted only with exactly six fields.
C7_SeparatedNeedsSixFields ==
    (pc = "return" /\ HasAny(arg, ShapeSeparators \cup {" "})) =>
       /\ fn = "_split_shape" => ret = [k \in 1..Len(SeparatedFields(arg)) |->
                                          Lower(SeparatedFields(arg)[k])]
       /\ fn = "validate" => (ret = "ok" => Len(SeparatedFields(arg)) = 6)

\* ------------------------------------------------------------ ABC parsing
Bar == <<"|">>

\* str.splitlines() over the rest s of the text, cur the line begun: a line ends at
\* a line break, "\r\n" is one break, and a break at the end starts no line
RECURSIVE LinesLoop(_, _)
LinesLoop(s, cur) ==
    IF s = <<>> THEN (IF cur = <<>> THEN <<>> ELSE <<cur>>)
    ELSE IF Head(s) \in LineBreaks
         THEN <<cur>> \o LinesLoop(IF Head(s) = CR /\ Len(s) >= 2 /\ s[2] = NL
                                   THEN Tail(Tail(s)) ELSE Tail(s), <<>>)
         ELSE LinesLoop(Tail(s), Append(cur, Head(s)))

\* str.splitlines()
SplitLines(text) == LinesLoop(text, <<>>)

\* str.startswith
StartsWith(s, prefix) == Len(s) >= Len(prefix) /\ SubSeq(s, 1, Len(prefix)) = prefix

\* HEADER_FIELD_RE.match(ln.strip())
HeaderFieldMatch(ln) ==
    LET t == Strip(ln)
    IN Len(t) >= 2 /\ t[1] \in {"X", "T", "S", "Q", "L", "M", "K"} /\ t[2] = ":"

\* the loop of split_header_body over lines[k..]; st = [header, body, have_key]
RECURSIVE SplitLoop_keepkey(_, _, _)
SplitLoop_keepkey(lines, k, st) ==
    IF k > Len(lines) THEN st
    ELSE LET ln == lines[k]
             isKey == StartsWith(Strip(ln), <<"K", ":">>)
         IN IF ~st.have_key /\ HeaderFieldMatch(ln)
            THEN SplitLoop_keepkey(lines, k + 1,
                     [header |-> Append(st.header, ln),
                      body |-> IF isKey THEN Append(st.body, ln) ELSE st.body,
                      have_key |-> isKey])
            ELSE IF st.have_key
            THEN SplitLoop_keepkey(lines, k + 1, [st EXCEPT !.body = Append(st.body, ln)])
            ELSE SplitLoop_keepkey(lines, k + 1,
                     [st EXCEPT !.header = Append(st.header, ln), !.have_key = isKey])

RECURSIVE SplitLoop(_, _, _)
SplitLoop(lines, k, st) ==
    IF k > Len(lines) THEN st
    ELSE LET ln == lines[k]
             isKey == StartsWith(Strip(ln), <<"K", ":">>)
         IN IF ~st.have_key /\ HeaderFieldMatch(ln)
            THEN SplitLoop(lines, k + 1,
                     [st EXCEPT !.header = Append(st.header, ln), !.have_key = isKey])
            ELSE IF st.have_key
            THEN SplitLoop(lines, k + 1, [st EXCEPT !.body = Append(st.body, ln)])
            ELSE SplitLoop(lines, k + 1,
                     [st EXCEPT !.header = Append(st.header, ln), !.have_key = isKey])

\* AbcParser.split_header_body: <<header lines, body lines>>
split_header_body(text) ==
    LET lines == SplitLines(text)
        st == SplitLoop(lines, 1, [header |-> <<>>, body |-> <<>>, have_key |-> FALSE])
    IN IF ~st.have_key THEN <<st.header, lines>> ELSE <<st.header, st.body>>

\* position of the first ch in s at or after p, Len(s) + 1 when there is none
RECURSIVE Find(_, _, _)
Find(s, ch, p) == IF p > Len(s) \/ s[p] = ch THEN p ELSE Find(s, ch, p + 1)

\* ln.split(':', 1)[1].strip()
AfterColon(ln) == Strip(SubSeq(ln, Find(ln, ":", 1) + 1, Len(ln)))

\* the first line of lines[k..] whose stripped text starts with prefix, None if none
RECURSIVE FirstLineWith(_, _, _)
FirstLineWith(lines, prefix, k) ==
    IF k > Len(lines) THEN None
    ELSE IF StartsWith(Strip(lines[k]), prefix) THEN Some(lines[k])
    ELSE FirstLineWith(lines, prefix, k + 1)

\* AbcParser.extract_title
extract_title(header_lines, fallback) ==
    LET ln == FirstLineWith(header_lines, <<"T", ":">>, 1)
    IN IF ln = None THEN fallback
       ELSE IF AfterColon(ln[1]) # <<>> THEN AfterColon(ln[1]) ELSE fallback

\* AbcParser.extract_key
extract_key(header_lines) ==
    LET ln == FirstLineWith(header_lines, <<"K", ":">>, 1)
    IN IF ln = None THEN <<"C">> ELSE AfterColon(ln[1])

\* end of the run of characters of S starting at position p
RECURSIVE RunEnd(_, _, _)
RunEnd(s, S, p) == IF p <= Len(s) /\ s[p] \in S THEN RunEnd(s, S, p + 1) ELSE p

\* characters ABC_TOKEN_RE matches one at a time
SingleCharTokens == Accidentals \cup NoteLetters \cup OctMarks \cup {"(", ")", ":"}

\* ABC_TOKEN_RE.findall(body) from position p; unmatched characters are skipped
RECURSIVE FindTokens(_, _)
FindTokens(s, p) ==
    IF p > Len(s) THEN <<>>
    ELSE IF s[p] \in SingleCharTokens THEN <<<<s[p]>>>> \o FindTokens(s, p + 1)
    ELSE IF s[p] \in Digits
         THEN <<SubSeq(s, p, RunEnd(s, Digits, p) - 1)>> \o FindTokens(s, RunEnd(s, Digits, p))
    ELSE IF s[p] = "|"
         THEN <<SubSeq(s, p, RunEnd(s, {"|"}, p) - 1)>> \o FindTokens(s, RunEnd(s, {"|"}, p))
    ELSE IF s[p] \in Whitespace
         THEN <<SubSeq(s, p, RunEnd(s, Whitespace, p) - 1)>>
              \o FindTokens(s, RunEnd(s, Whitespace, p))
    ELSE FindTokens(s, p + 1)

\* str.isspace()
IsSpace(t) == t # <<>> /\ \A k \in 1..Len(t) : t[k] \in Whitespace

RECURSIVE DropSpace(_)
DropSpace(ts) == IF ts = <<>> THEN <<>>
                 ELSE (IF IsSpace(Head(ts)) THEN <<>> ELSE <<Head(ts)>>) \o DropSpace(Tail(ts))

\* the loop "for t in raw_tokens" of parse
RECURSIVE CollapseBars_keepall(_, _)
CollapseBars_keepall(raw, toks) ==
    IF raw = <<>> THEN toks
    ELSE IF Head(raw)[1] = "|"
         THEN CollapseBars_keepall(Tail(raw), Append(toks, Bar))
         ELSE CollapseBars_keepall(Tail(raw), Append(toks, Head(raw)))

RECURSIVE CollapseBars(_, _)
CollapseBars(raw, toks) ==
    IF raw = <<>> THEN toks
    ELSE IF Head(raw)[1] = "|"
         THEN CollapseBars(Tail(raw),
                           IF toks = <<>> \/ toks[Len(toks)] # Bar
                           THEN Append(toks, Bar) ELSE toks)
         ELSE CollapseBars(Tail(raw), Append(toks, Head(raw)))

\* AbcParser.parse: the AbcScore; title_hint is None or Some(text)
parse(text, title_hint) ==
    LET hb == split_header_body(text)
        body == Join(hb[2], <<NL>>)
        raw_tokens == DropSpace(FindTokens(body, 1))
    IN [title |-> extract_title(hb[1], IF title_hint # None /\ title_hint[1] # <<>>
                                       THEN title_hint[1]
                                       ELSE <<"U", "n", "t", "i", "t", "l", "e", "d">>),
        key |-> extract_key(hb[1]),
        tokens |-> CollapseBars(raw_tokens, <<>>)]

\* ------------------------------------------------------------ inputs of parse
ParseAlphabet == {"K", ":", "C", "|", " ", NL}

\* the end-to-end scenario: "K:C\nC D E F|G A B c|" with title hint "Test"
EndToEndText == <<"K", ":", "C", NL,
                  "C", " ", "D", " ", "E", " ", "F", "|",
                  "G", " ", "A", " ", "B", " ", "c", "|">>
TestHint == <<"T", "e", "s", "t">>

\* texts with the other line breaks and whitespace: a file with "\r\n" line ends,
\* a K: line ended by a form feed, bars across a carriage return and across a
\* vertical tab, a K: line after a unit separator
LineBreakTexts == { <<"K", ":", "C", CR, NL, "C", "|", CR, NL, "|", "C", CR, NL>>,
                    <<"K", ":", "C", FF, "C", "|">>,
                    <<"|", CR, "|">>,
                    <<"C", "|", VT, "|", "C">>,
                    <<US, "K", ":", "C", RS, "C", GS, "|", FS, "|">>,
                    <<"C", "\t", "|", US, "|">> }

ParseTexts == SeqsUpTo(ParseAlphabet, MaxTextLen) \cup {EndToEndText} \cup LineBreakTexts

\* ------------------------------------------------------------ state machine: parse
InitParse ==
    /\ fn = "parse"
    /\ arg \in ParseTexts \X {None, Some(TestHint)}
    /\ pc = "call" /\ ret = None
    /\ Idle

Call_parse ==
    /\ pc = "call" /\ fn = "parse"
    /\ ret' = parse(arg[1], arg[2])
    /\ pc' = "return"
    /\ UNCHANGED <<fn, arg, chords, disk, tokens, mapping, gt>>

NextParse == Call_parse

SpecParse == InitParse /\ [][NextParse]_vars

\* ------------------------------------------------------------ claims: parse
\* the body text parse tokenizes
BodyOf(text) == Join(split_header_body(text)[2], <<NL>>)

\* the characters of a text the token grammar recognises, in order
RECURSIVE Recognised(_)
Recognised(t) ==
    IF t = <<>> THEN <<>>
    ELSE (IF Head(t) \in SingleCharTokens \cup Digits \cup Whitespace \cup {"|"}
          THEN <<Head(t)>> ELSE <<>>) \o Recognised(Tail(t))

\* positions where a run of bar characters starts: a bar character that no bar
\* character precedes, directly or across whitespace only
BarRunStarts(v) ==
    {p \in 1..Len(v) :
        /\ v[p] = "|"
        /\ ~\E q \in 1..(p - 1) :
              v[q] = "|" /\ \A r \in (q + 1)..(p - 1) : v[r] \in Whitespace}

\* C2: the tokens of parse never hold two adjacent BarMarkers, and every run of
\* bar characters (consecutive or separated only by whitespace) of the body gives
\* exactly one BarMarker; characters outside the token grammar give no token and
\* separate nothing, so the runs are those of the recognised characters.
C2_NoAdjacentBars ==
    (pc = "return" /\ fn = "parse") =>
       /\ \A k \in 1..(Len(ret.tokens) - 1) :
             ~(ret.tokens[k] = Bar /\ ret.tokens[k + 1] = Bar)
       /\ \A k \in 1..Len(ret.tokens) : ret.tokens[k][1] = "|" => ret.tokens[k] = Bar
       /\ Cardinality({k \in 1..Len(ret.tokens) : ret.tokens[k] = Bar})
             = Cardinality(BarRunStarts(Recognised(BodyOf(arg[1]))))

\* C2 witness: the body "|| |C" (bars doubled, then across a space) gives [|, C]
C2_Witness ==
    /\ pc = "return" /\ fn = "parse"
    /\ arg[1] = <<"|", "|", " ", "|", "C">>
    /\ ret.tokens = <<Bar, <<"C">>>>

\* C4 as stated: the end-to-end text yields exactly [C, D, E, F, |, G, A, B, c]
C4_EndToEndTokens_original ==
    (pc = "return" /\ fn = "parse" /\ arg = <<EndToEndText, Some(TestHint)>>) =>
       ret.tokens = << <<"C">>, <<"D">>, <<"E">>, <<"F">>, Bar,
                       <<"G">>, <<"A">>, <<"B">>, <<"c">> >>

\* C4 amended: the end-to-end text yields [C, D, E, F, |, G, A, B, c, |]: the K:
\* line contributes no tokens and the closing bar character gives a last BarMarker.
C4_EndToEndTokens ==
    (pc = "return" /\ fn = "parse" /\ arg = <<EndToEndText, Some(TestHint)>>) =>
       ret.tokens = << <<"C">>, <<"D">>, <<"E">>, <<"F">>, Bar,
                       <<"G">>, <<"A">>, <<"B">>, <<"c">>, Bar >>

\* C4 witness: the end-to-end text has been parsed, title from the hint, key C
C4_Witness ==
    /\ pc = "return" /\ fn = "parse" /\ arg = <<EndToEndText, Some(TestHint)>>
    /\ ret.title = TestHint /\ ret.key = <<"C">>
    /\ Len(ret.tokens) = 10

\* ------------------------------------------------------------ melody tab: rendering
\* the loop of tokens_to_notes from position i (1-based) with the output so far
RECURSIVE NotesLoop(_, _, _)
NotesLoop(toks, i, out) ==
    IF i > Len(toks) THEN out
    ELSE IF toks[i] = Bar THEN NotesLoop(toks, i + 1, Append(out, Bar))
    ELSE IF Len(toks[i]) = 1 /\ toks[i][1] \in Accidentals \cup NoteLetters
         THEN LET j == RunEnd([k \in 1..Len(toks) |->
                                 IF Len(toks[k]) = 1 /\ toks[k][1] \in OctMarks
                                 THEN "oct" ELSE "other"], {"oct"}, i + 1)
                  tok == Join(<<toks[i]>> \o SubSeq(toks, i + 1, j - 1), <<>>)
                  n == RunEnd([k \in 1..Len(toks) |->
                                 IF IsDigit(toks[k]) THEN "dur" ELSE "other"], {"dur"}, j)
              IN NotesLoop(toks, n, Append(out, tok))
    ELSE NotesLoop(toks, i + 1, out)

\* MelodyTabber.tokens_to_notes
tokens_to_notes(toks) == NotesLoop(toks, 1, <<>>)

\* the loop of build_bar_blocks
RECURSIVE BarsLoop(_, _)
BarsLoop(note_tokens, bars) ==
    IF note_tokens = <<>> THEN bars
    ELSE IF Head(note_tokens) = Bar
         THEN BarsLoop(Tail(note_tokens), Append(bars, <<>>))
         ELSE BarsLoop(Tail(note_tokens),
                       [bars EXCEPT ![Len(bars)] = Append(@, Head(note_tokens))])

\* MelodyTabber.build_bar_blocks
build_bar_blocks(note_tokens) ==
    LET bars == BarsLoop(note_tokens, << <<>> >>)
    IN IF bars[Len(bars)] = <<>> THEN SubSeq(bars, 1, Len(bars) - 1) ELSE bars

\* str(n) for n >= 0
RECURSIVE IntToStr(_)
IntToStr(n) ==
    LET d == <<"0", "1", "2", "3", "4", "5", "6", "7", "8", "9">>
    IN IF n < 10 THEN <<d[n + 1]>> ELSE IntToStr(n \div 10) \o <<d[(n % 10) + 1]>>

\* a note that puts its fret on every string
NoteEntry_everystring(note, s) ==
    LET midi == abc_note_to_midi(note)
        pos == IF midi # None THEN choose_fret(midi[1]) ELSE None
    IN IF pos # None THEN IntToStr(pos[1].fret) ELSE <<"-">>

\* what one note appends to the list of string s
NoteEntry(note, s) ==
    LET midi == abc_note_to_midi(note)
        pos == IF midi # None THEN choose_fret(midi[1]) ELSE None
    IN IF pos # None /\ s = pos[1].string THEN IntToStr(pos[1].fret) ELSE <<"-">>

\* string_lines[s] after the bars of a chunk: an entry per note, '|' after each bar
RECURSIVE StringLine(_, _)
StringLine(chunk, s) ==
    IF chunk = <<>> THEN <<>>
    ELSE [k \in 1..Len(Head(chunk)) |-> NoteEntry(Head(chunk)[k], s)]
         \o <<Bar>> \o StringLine(Tail(chunk), s)

\* str.rstrip(ch)
RECURSIVE RStripChar(_, _)
RStripChar(t, ch) == IF t # <<>> /\ t[Len(t)] = ch
                     THEN RStripChar(SubSeq(t, 1, Len(t) - 1), ch) ELSE t

\* the six rows of a chunk
ChunkRows(chunk) ==
    [k \in 1..Len(STRINGS_HIGH_TO_LOW) |->
        <<STRINGS_HIGH_TO_LOW[k], "|", " ">>
        \o RStrip(RStripChar(Join(StringLine(chunk, STRINGS_HIGH_TO_LOW[k]), <<" ">>), "|"))]

\* the list "lines" built by "for i in range(0, len(bars), 3)", from bar i (1-based)
RECURSIVE RenderLines(_, _)
RenderLines(bars, i) ==
    IF i > Len(bars) THEN <<>>
    ELSE ChunkRows(SubSeq(bars, i, IF i + 2 <= Len(bars) THEN i + 2 ELSE Len(bars)))
         \o << <<>> >> \o RenderLines(bars, i + 3)

\* render_3bars_per_line that keeps the text it joined
render_3bars_per_line_norstrip(bars) == Join(RenderLines(bars, 1), <<NL>>)

\* MelodyTabber.render_3bars_per_line
render_3bars_per_line(bars) == RStrip(Join(RenderLines(bars, 1), <<NL>>))

\* MelodyTabber.generate_melody_tab, from score.tokens
generate_melody_tab(toks) == render_3bars_per_line(build_bar_blocks(tokens_to_notes(toks)))

\* ------------------------------------------------------------ inputs of the renderer
\* bars: empty, one note in range (C: string B fret 1), a token without pitch
\* followed by a note high on the neck (c': string e fret 20)
BarChoices == { <<>>, << <<"C">> >>, << <<"^">>, <<"c", "'">> >> }
BarLists == SeqsUpTo(BarChoices, MaxBars)

\* ------------------------------------------------------------ state machine: melody tab
InitMelody ==
    /\ fn = "render_3bars_per_line"
    /\ arg \in BarLists
    /\ pc = "call" /\ ret = None
    /\ Idle

Call_render_3bars_per_line ==
    /\ pc = "call" /\ fn = "render_3bars_per_line"
    /\ ret' = render_3bars_per_line(arg)
    /\ pc' = "return"
    /\ UNCHANGED <<fn, arg, chords, disk, tokens, mapping, gt>>

NextMelody == Call_render_3bars_per_line

SpecMelody == InitMelody /\ [][NextMelody]_vars

\* ------------------------------------------------------------ claims: melody tab
\* the lines of a text: what lies between its line breaks
BreaksUpTo(text, p) == Cardinality({q \in 1..p : text[q] = NL})
Break(text, k) == CHOOSE p \in 1..Len(text) : text[p] = NL /\ BreaksUpTo(text, p) = k
LinesOf(text) ==
    LET n == BreaksUpTo(text, Len(text))
    IN [k \in 1..(n + 1) |->
          SubSeq(text, IF k = 1 THEN 1 ELSE Break(text, k - 1) + 1,
                       IF k = n + 1 THEN Len(text) ELSE Break(text, k) - 1)]

Chunks(n) == (n + 2) \div 3
\* the bars of chunk j (1-based) of n bars taken three at a time
ChunkBars(bars, j) == SubSeq(bars, 3 * j - 2, IF 3 * j <= Len(bars) THEN 3 * j ELSE Len(bars))

RECURSIVE NotesIn(_)
NotesIn(chunk) == IF chunk = <<>> THEN 0 ELSE Len(Head(chunk)) + NotesIn(Tail(chunk))

\* the columns of a row: what follows the label, split at spaces
Columns(row) == NonEmpty(SplitOn(SubSeq(row, 3, Len(row)), {" "}, FALSE, <<>>))

\* chunk j of the output is six rows labelled e, B, G, D, A, E, holding the bars
\* 3j-2..3j: a column per note and a '|' between two bars
ChunkLayout(lines, bars, j) ==
    /\ Len(lines) >= 7 * (j - 1) + 6
    /\ \A r \in 1..6 :
          LET row == lines[7 * (j - 1) + r]
          IN /\ Len(row) >= 2
             /\ row[1] = <<"e", "B", "G", "D", "A", "E">>[r]
             /\ row[2] = "|"
             /\ Cardinality({k \in 1..Len(Columns(row)) : Columns(row)[k] = Bar})
                   = Len(ChunkBars(bars, j)) - 1
             /\ Cardinality({k \in 1..Len(Columns(row)) : Columns(row)[k] # Bar})
                   = NotesIn(ChunkBars(bars, j))

\* C5 as stated: ceil(n/3) chunks of six rows, each chunk followed by a blank
\* line, the last one too
C5_ChunksOfThree_original ==
    (pc = "return" /\ fn = "render_3bars_per_line") =>
       LET lines == LinesOf(ret)
       IN \A j \in 1..Chunks(Len(arg)) :
             /\ ChunkLayout(lines, arg, j)
             /\ Len(lines) >= 7 * j
             /\ lines[7 * j] = <<>>

\* C5 amended: ceil(n/3) chunks taking the bars three at a time, each of six rows
\* e, B, G, D, A, E; every chunk but the last is followed by a blank line, and the
\* text ends with the sixth row of the last chunk (no bars: the empty text).
C5_ChunksOfThree ==
    (pc = "return" /\ fn = "render_3bars_per_line") =>
       LET lines == LinesOf(ret)
       IN /\ \A j \in 1..Chunks(Len(arg)) : ChunkLayout(lines, arg, j)
          /\ \A j \in 1..(Chunks(Len(arg)) - 1) : lines[7 * j] = <<>>
          /\ Len(arg) > 0 => Len(lines) = 7 * Chunks(Len(arg)) - 1
          /\ Len(arg) = 0 => ret = <<>>

\* C5 witness: seven bars were rendered as chunks of 3, 3 and 1 bars, 20 lines
C5_Witness ==
    /\ pc = "return" /\ fn = "render_3bars_per_line"
    /\ Len(arg) = 7
    /\ LET lines == LinesOf(ret)
       IN /\ Len(lines) = 20
          /\ lines[7] = <<>> /\ lines[14] = <<>>
          /\ lines[20][1] = "E"

\* ------------------------------------------------------------ inputs of tokens_to_notes
\* song bodies with an accidental, a letter, an octave mark, a duration digit, a
\* bar character and a slur parenthesis
NoteAlphabet == {"^", "C", "'", "2", "|", "("}
NoteTexts == SeqsUpTo(NoteAlphabet, MaxTextLen)

\* score.tokens of the songs
ParsedTokens == {parse(text, None).tokens : text \in NoteTexts}

\* ------------------------------------------------------------ state machine: tokens_to_notes
\* generate_melody_tab hands score.tokens, as parse built them, to tokens_to_notes
InitNotes ==
    /\ fn = "tokens_to_notes"
    /\ arg \in ParsedTokens
    /\ pc = "call" /\ ret = None
    /\ Idle

Call_tokens_to_notes ==
    /\ pc = "call" /\ fn = "tokens_to_notes"
    /\ ret' = tokens_to_notes(arg)
    /\ pc' = "return"
    /\ UNCHANGED <<fn, arg, chords, disk, tokens, mapping, gt>>

NextNotes == Call_tokens_to_notes

SpecNotes == InitNotes /\ [][NextNotes]_vars

\* ------------------------------------------------------------ claims: tokens_to_notes
\* the tokens that are a note letter
LetterTokens(toks) == {k \in 1..Len(toks) : Len(toks[k]) = 1 /\ toks[k][1] \in NoteLetters}

\* C11: for the tokens of a parsed song, every non-bar element of tokens_to_notes'
\* output is a well-formed pitch token (optional accidental, exactly one letter,
\* octave marks); an accidental belongs to the element of the letter it precedes,
\* so there is one element per letter token; digits and other tokens give none.
C11_NotesWellFormed ==
    (pc = "return" /\ fn = "tokens_to_notes") =>
       /\ \A k \in 1..Len(ret) : ret[k] # Bar => WellFormed(ret[k])
       /\ Cardinality({k \in 1..Len(ret) : ret[k] # Bar}) = Cardinality(LetterTokens(arg))

\* ------------------------------------------------------------ inputs of the renderer: columns
\* bars of pitch tokens as tokens_to_notes builds them: none; C (string B fret 1);
\* an accidental without a letter, then c' (string e fret 20); C,, (pitch 36, below
\* every string); c''' (pitch 108, above fret 24 of every string), then E, (string
\* D fret 2)
ColumnBarChoices == { <<>>,
                      << <<"C">> >>,
                      << <<"^">>, <<"c", "'">> >>,
                      << <<"C", ",", ",">> >>,
                      << <<"c", "'", "'", "'">>, <<"E", ",">> >> }
MaxChunkBars == 4
ColumnBarLists == SeqsUpTo(ColumnBarChoices, MaxChunkBars)

\* ------------------------------------------------------------ state machine: melody tab columns
InitColumns ==
    /\ fn = "render_3bars_per_line"
    /\ arg \in ColumnBarLists
    /\ pc = "call" /\ ret = None
    /\ Idle

SpecColumns == InitColumns /\ [][NextMelody]_vars

\* ------------------------------------------------------------ claims: melody tab columns
\* the pitch tokens of a chunk, bar after bar
RECURSIVE FlatNotes(_)
FlatNotes(chunk) == IF chunk = <<>> THEN <<>> ELSE Head(chunk) \o FlatNotes(Tail(chunk))

\* the entries of a row that are not bar separators
NoteColumns(row) == SelectSeq(Columns(row), LAMBDA c : c # Bar)

\* the fret position a pitch token resolves to, if any
Resolved(note) == IF abc_note_to_midi(note) = None THEN None
                  ELSE choose_fret(abc_note_to_midi(note)[1])

\* C13: in render_3bars_per_line every pitch token of a chunk adds exactly one
\* column to each of the six rows, so the six rows hold the same number of
\* entries; a token that resolves to a fret position puts the fret number on the
\* row of the resolved string and a rest marker on the other five; a token with no
\* valid pitch or no string in range puts a rest marker on all six, and the
\* tokens after it are rendered.
C13_OneColumnPerToken ==
    (pc = "return" /\ fn = "render_3bars_per_line") =>
       LET lines == LinesOf(ret)
       IN \A j \in 1..Chunks(Len(arg)) :
             LET notes == FlatNotes(ChunkBars(arg, j))
                 cols == [r \in 1..6 |-> NoteColumns(lines[7 * (j - 1) + r])]
                 all == [r \in 1..6 |-> Columns(lines[7 * (j - 1) + r])]
             IN /\ \A r \in 1..6 : Len(cols[r]) = Len(notes) /\ Len(all[r]) = Len(all[1])
                /\ \A n \in 1..Len(notes) :
                      IF Resolved(notes[n]) = None
                      THEN \A r \in 1..6 : cols[r][n] = <<"-">>
                      ELSE /\ Cardinality({r \in 1..6 : cols[r][n] # <<"-">>}) = 1
                           /\ cols[StringIndex(Resolved(notes[n])[1].string)][n]
                                 = IntToStr(Resolved(notes[n])[1].fret)

\* C13 witness: the bars [^ c'] and [C,,] were rendered: the e row holds a rest, the
\* fret 20 and, past the bar, a rest; the B row holds rests only
C13_Witness ==
    /\ pc = "return" /\ fn = "render_3bars_per_line"
    /\ arg = << << <<"^">>, <<"c", "'">> >>, << <<"C", ",", ",">> >> >>
    /\ LinesOf(ret)[1] = <<"e", "|", " ", "-", " ", "2", "0", " ", "|", " ", "-">>
    /\ LinesOf(ret)[2] = <<"B", "|", " ", "-", " ", "-", " ", "|", " ", "-">>

\* ------------------------------------------------------------ chord library
\* d[k] = v of a dict, and d.get(k)
DictSet(d, k, v) == [n \in DOMAIN d \cup {k} |-> IF n = k THEN v ELSE d[n]]
DictGet(d, k) == IF k \in DOMAIN d THEN Some(d[k]) ELSE None

\* chords.json holding a text that json.loads rejects
Unreadable(text) == <<"unreadable", text>>

\* ChordLibrary.load: the dict of chords.json, {} when the file does not exist, and
\* {} after a warning when json.loads raises (the file is left as it is);
\* file is None, Some(dict) or Unreadable(text)
load(file) == IF file = None THEN <<>>
              ELSE IF Len(file) = 2 THEN <<>>
              ELSE file[1]

\* add_chord that stores and saves before it validates
add_chord_storefirst(lib, name, shape) ==
    LET c == DictSet(lib.chords, name, shape)
    IN [chords |-> c, disk |-> Some(c), result |-> validate(shape)]

\* ChordLibrary.add_chord on lib = [chords, disk]: the library after the call and
\* "ok" or the ValueError that validate raised
add_chord(lib, name, shape) ==
    IF validate(shape) # "ok"
    THEN [chords |-> lib.chords, disk |-> lib.disk, result |-> validate(shape)]
    ELSE LET c == DictSet(lib.chords, name, shape)
         IN [chords |-> c, disk |-> Some(c), result |-> "ok"]

\* ------------------------------------------------------------ chord tab
\* the character U+2192 (rightwards arrow) of the annotations
Arrow == "->"
Unmapped == <<" ", Arrow, " ", "[", "u", "n", "m", "a", "p", "p", "e", "d", "]">>
MissingInLib == <<" ", "[", "m", "i", "s", "s", "i", "n", "g", " ",
                  "i", "n", " ", "l", "i", "b", "]">>

\* the ValueError of split_shape_6, in place of a result
Raised == <<"ValueError: Chord shape must have 6 entries.">>

\* split_shape_6
split_shape_6(shape) ==
    IF Len(_split_shape(shape)) # 6 THEN Raised ELSE _split_shape(shape)

\* TabGenerator.chord_block
chord_block(name, shape) ==
    LET groups == split_shape_6(shape)
    IN IF groups = Raised THEN Raised
       ELSE LET lines == [k \in 1..6 |->
                            <<STRINGS_HIGH_TO_LOW[k], "|", "-", " ">> \o groups[7 - k]]
            IN <<"[">> \o name \o <<"]">> \o <<NL>> \o Join(lines, <<NL>>)

\* generate_tab before its loop: i, segment, out_lines; keys lists the texts looked
\* up in the mapping so far, raised tells that an exception left the function
GenTabEnter == [i |-> 0, segment |-> <<>>, out_lines |-> <<>>, keys |-> <<>>,
                raised |-> FALSE]

\* the '|' iteration without the divider line
GenTabBarStep_nodivider(st) ==
    IF st.segment # <<>>
    THEN [st EXCEPT !.out_lines = Append(st.out_lines, Join(st.segment, <<" ", "|", " ">>)),
                    !.segment = <<>>,
                    !.i = st.i + 1]
    ELSE [st EXCEPT !.out_lines = Append(st.out_lines, Bar), !.i = st.i + 1]

\* one iteration of "while i < len(tokens)", at a '|' token
GenTabBarStep(st) ==
    IF st.segment # <<>>
    THEN [st EXCEPT !.out_lines = st.out_lines
                                  \o <<Join(st.segment, <<" ", "|", " ">>), <<"-">>>>,
                    !.segment = <<>>,
                    !.i = st.i + 1]
    ELSE [st EXCEPT !.out_lines = Append(st.out_lines, Bar), !.i = st.i + 1]

\* one iteration of "while i < len(tokens)", at another token
GenTabNoteStep(st, toks, map, lib) ==
    LET j == RunEnd([k \in 1..Len(toks) |-> IF IsDigit(toks[k]) THEN "dur" ELSE "other"],
                    {"dur"}, st.i + 2) - 1
        note_token == Join(SubSeq(toks, st.i + 1, j), <<>>)
        chord_name == DictGet(map, note_token)
        shape == IF chord_name = None THEN None ELSE DictGet(lib, chord_name[1])
        looked == [st EXCEPT !.keys = Append(st.keys, note_token), !.i = j]
    IN IF chord_name = None \/ chord_name[1] = <<>>
       THEN [looked EXCEPT !.segment = Append(st.segment, note_token \o Unmapped)]
       ELSE IF shape = None \/ shape[1] = <<>>
       THEN [looked EXCEPT !.segment = Append(st.segment,
                 note_token \o <<" ", Arrow, " ">> \o chord_name[1] \o MissingInLib)]
       ELSE IF chord_block(chord_name[1], shape[1]) = Raised
       THEN [st EXCEPT !.keys = Append(st.keys, note_token), !.raised = TRUE,
                       !.segment = Append(st.segment,
                           note_token \o <<" ", Arrow, " ">> \o chord_name[1])]
       ELSE [looked EXCEPT !.segment = st.segment
                 \o <<note_token \o <<" ", Arrow, " ">> \o chord_name[1],
                      chord_block(chord_name[1], shape[1])>>]

\* what generate_tab returns after its loop
GenTabResult(st) ==
    Join(IF st.segment # <<>>
         THEN Append(st.out_lines, Join(st.segment, <<" ", "|", " ">>))
         ELSE st.out_lines, <<NL>>)

RECURSIVE GenTabLoop(_, _, _, _)
GenTabLoop(st, toks, map, lib) ==
    IF st.raised THEN Raised
    ELSE IF st.i >= Len(toks) THEN GenTabResult(st)
    ELSE IF toks[st.i + 1] = Bar THEN GenTabLoop(GenTabBarStep(st), toks, map, lib)
    ELSE GenTabLoop(GenTabNoteStep(st, toks, map, lib), toks, map, lib)

\* TabGenerator.generate_tab: the text, or Raised; lib is lib.chords
generate_tab(toks, map, lib) == GenTabLoop(GenTabEnter, toks, map, lib)

\* ------------------------------------------------------------ inputs of the program
CM == <<"C", "M">>
Am == <<"A", "m">>
ShapeCM == <<"x", "3", "2", "0", "1", "0">>
\* a chords.json entry of five characters, as a hand-edited file may hold
ShapeShort == <<"3", "2", "0", "1", "0">>

\* chord names and shapes typed in while working on a song
SongChordNames == {CM}
SongShapes == {ShapeCM, ShapeShort}

\* chords.json as the program may find it: any dict of names to shape strings
SavedLibraries == UNION {[S -> SongShapes] : S \in SUBSET SongChordNames}

\* chords.json cut off while it was written: {"CM": "x32010"
TruncatedJson == <<"{", "\"", "C", "M", "\"", ":", " ", "\"", "x", "3", "2", "0", "1", "0", "\"">>

\* abc.txt of the song: short bodies without a K: line
SongAlphabet == {"C", "2", "|", "'"}
SongTexts == SeqsUpTo(SongAlphabet, MaxSongLen)

\* the notes the mapping workflow offers: sorted({t for t in tokens_to_notes(...) if t != '|'})
NotesOf(toks) == {tokens_to_notes(toks)[k] : k \in 1..Len(tokens_to_notes(toks))} \ {Bar}

\* mapping.json as the mapping workflow saved it in an earlier session
SavedMappings(toks) == UNION {[S -> SongChordNames] : S \in SUBSET NotesOf(toks)}

\* chord names and shapes typed in at "Add chords to global library"
LibNames == {CM, Am}
LibShapes == ShapeExamples

\* the song file put into abc_inbox again under the title of the song
ImportTexts == { <<"C">>, <<"C", "'">>, <<"C", "2", "|", "C">> }

\* ------------------------------------------------------------ console input
\* input(prompt).strip() is empty: input_nonempty prompts again, and
\* workflow_add_chords stops at an empty chord name
Blank(typed) == Strip(typed) = <<>>

\* input_nonempty on a typed line that is not blank: None for '0' (back), else the
\* line without the whitespace around it
input_nonempty(typed) == IF Strip(typed) = <<"0">> THEN None ELSE Some(Strip(typed))

\* ------------------------------------------------------------ state machine: the program
\* main() has built the library from chords.json; workflow_work_on_song has parsed
\* the song and loaded its mapping
Init ==
    /\ disk \in {None} \cup {Some(d) : d \in SavedLibraries} \cup {Unreadable(TruncatedJson)}
    /\ chords = load(disk)
    /\ \E text \in SongTexts : tokens = parse(text, None).tokens
    /\ mapping \in SavedMappings(tokens)
    /\ pc = "menu" /\ gt = <<>>
    /\ fn = "none" /\ arg = <<>> /\ ret = None

\* lib.add_chord(name, shape) called from a workflow, the exception caught there
AddChordCall(name, shape) ==
    LET r == add_chord([chords |-> chords, disk |-> disk], name, shape)
    IN /\ chords' = r.chords
       /\ disk' = r.disk
       /\ fn' = "add_chord" /\ arg' = <<name, shape>> /\ ret' = r.result

\* one pass of the loop of workflow_add_chords that calls add_chord: a name and a
\* shape typed at the prompts (a blank or '0' name, a '0' shape end the loop, a
\* blank shape prompts again: no call)
AddChordTyped(names, shapes) ==
    \E name \in names, shape \in shapes :
       /\ ~Blank(name) /\ input_nonempty(name) # None
       /\ ~Blank(shape) /\ input_nonempty(shape) # None
       /\ AddChordCall(input_nonempty(name)[1], input_nonempty(shape)[1])

\* workflow_add_chords
AddChord ==
    /\ pc \in {"menu", "done"}
    /\ AddChordTyped(SongChordNames, SongShapes)
    /\ UNCHANGED <<tokens, mapping, pc, gt>>

\* workflow_work_on_song, choice 2: a chord picked from the library for a note
MapNote ==
    /\ pc \in {"menu", "done"}
    /\ \E note \in NotesOf(tokens), cname \in DOMAIN chords :
          mapping' = DictSet(mapping, note, cname)
    /\ UNCHANGED <<fn, arg, ret, chords, disk, tokens, pc, gt>>

\* workflow_work_on_song, choice 2, 'new': the chord is added, then mapped
MapNoteNew ==
    /\ pc \in {"menu", "done"}
    /\ \E note \in NotesOf(tokens), cname \in SongChordNames, cshape \in SongShapes :
          /\ ~Blank(cname) /\ input_nonempty(cname) # None
          /\ ~Blank(cshape) /\ input_nonempty(cshape) # None
          /\ AddChordCall(input_nonempty(cname)[1], input_nonempty(cshape)[1])
          /\ mapping' = IF ret' = "ok"
                        THEN DictSet(mapping, note, input_nonempty(cname)[1]) ELSE mapping
    /\ UNCHANGED <<tokens, pc, gt>>

\* workflow_work_on_song, choice 3: generate_tab(score.tokens, mapping, lib) starts
GenTabStart ==
    /\ pc \in {"menu", "done"}
    /\ pc' = "loop"
    /\ gt' = GenTabEnter
    /\ fn' = "generate_tab" /\ arg' = <<>> /\ ret' = None
    /\ UNCHANGED <<chords, disk, tokens, mapping>>

GenTabBar ==
    /\ pc = "loop" /\ gt.i < Len(tokens) /\ tokens[gt.i + 1] = Bar
    /\ gt' = GenTabBarStep(gt)
    /\ UNCHANGED <<fn, arg, ret, chords, disk, tokens, mapping, pc>>

GenTabNote ==
    /\ pc = "loop" /\ gt.i < Len(tokens) /\ tokens[gt.i + 1] # Bar
    /\ gt' = GenTabNoteStep(gt, tokens, mapping, chords)
    /\ pc' = IF gt'.raised THEN "raised" ELSE "loop"
    /\ ret' = IF gt'.raised THEN Raised ELSE ret
    /\ UNCHANGED <<fn, arg, chords, disk, tokens, mapping>>

GenTabReturn ==
    /\ pc = "loop" /\ gt.i >= Len(tokens)
    /\ ret' = GenTabResult(gt)
    /\ pc' = "done"
    /\ UNCHANGED <<fn, arg, chords, disk, tokens, mapping, gt>>

\* workflow_import_abc between two visits of the song: Importer.import_new_abc
\* writes the text over abc.txt of the song of that title and keeps its
\* mapping.json; workflow_work_on_song then parses the new text
ImportAbc ==
    /\ pc \in {"menu", "done"}
    /\ \E text \in ImportTexts : tokens' = parse(text, None).tokens
    /\ pc' = "menu" /\ gt' = <<>>
    /\ fn' = "import_new_abc" /\ arg' = <<>> /\ ret' = None
    /\ UNCHANGED <<chords, disk, mapping>>

Next == \/ AddChord \/ MapNote \/ MapNoteNew \/ ImportAbc
        \/ GenTabStart \/ GenTabBar \/ GenTabNote \/ GenTabReturn

Spec == Init /\ [][Next]_vars

\* ------------------------------------------------------------ state machine: the library alone
\* an empty library (no chords.json yet, or one that cannot be read) and add_chord
\* calls
InitLib ==
    /\ disk \in {None, Unreadable(TruncatedJson)} /\ chords = load(disk)
    /\ tokens = <<>> /\ mapping = <<>>
    /\ pc = "menu" /\ gt = <<>>
    /\ fn = "none" /\ arg = <<>> /\ ret = None

AddChordLib ==
    /\ AddChordTyped(LibNames, LibShapes)
    /\ UNCHANGED <<tokens, mapping, pc, gt>>

NextLib == AddChordLib

SpecLib == InitLib /\ [][NextLib]_vars

\* ------------------------------------------------------------ claims: library
\* the shape normalizes to exactly six entries, each a digit run or the mute marker
Normalizes(shape) ==
    /\ Len(_split_shape(shape)) = 6
    /\ \A k \in 1..6 : \/ IsDigit(_split_shape(shape)[k])
                       \/ _split_shape(shape)[k] \in {<<"x">>, <<"X">>}

\* C8: add_chord with a shape that does not normalize to six digit-run or mute
\* entries fails with a validation error and changes neither the library nor the
\* saved file (an entry of the same name keeps its shape); with a shape that does,
\* it stores and saves the shape; hence every stored shape passes validation.
C8_RejectedAddLeavesLibrary ==
    /\ [](\A n \in DOMAIN chords : Normalizes(chords[n]) /\ validate(chords[n]) = "ok")
    /\ [][fn' = "add_chord" =>
            IF Normalizes(arg'[2])
            THEN /\ ret' = "ok"
                 /\ chords' = DictSet(chords, arg'[1], arg'[2])
                 /\ disk' = Some(chords')
            ELSE /\ ret' # "ok"
                 /\ chords' = chords
                 /\ disk' = disk]_vars

\* C8 witness: CM is stored, then add_chord(CM, 'x3201') was rejected: CM keeps its
\* shape and the file still holds the library
C8_Witness ==
    /\ fn = "add_chord" /\ arg = <<CM, <<"x", "3", "2", "0", "1">>>>
    /\ ret = "ValueError: exactly 6 strings"
    /\ CM \in DOMAIN chords /\ chords[CM] = ShapeCM
    /\ disk = Some(chords)

\* ------------------------------------------------------------ claims: chord tab
\* C9: generate_tab never raises, whatever the tokens, the mapping and the library
C9_GenerateTabTotal == pc # "raised"

Range(f) == {f[k] : k \in DOMAIN f}

\* C10: generate_tab looks a note up under the pitch-token text that
\* tokens_to_notes produces for it (octave marks included, duration digits
\* excluded), the text under which the mapping workflow stored its chord: once
\* generate_tab has returned, every key of the mapping that is a note of the song
\* has been looked up
C10_LookupKeyIsNoteText ==
    pc = "done" => \A note \in DOMAIN mapping \cap NotesOf(tokens) : note \in Range(gt.keys)

\* ------------------------------------------------------------ claims: chord tab layout
Divider == <<"-">>

\* the BarMarkers with at least one other token since the previous BarMarker
BarsAfterNotes(toks) ==
    {k \in 1..Len(toks) :
        /\ toks[k] = Bar
        /\ \E j \in 1..(k - 1) : \A r \in j..(k - 1) : toks[r] # Bar}

\* what a line of the output is: a bare bar line, a divider, or a flushed segment
LineKind(line) == IF line = Bar THEN "bar" ELSE IF line = Divider THEN "div" ELSE "seg"

\* the kinds of lines the tokens from position k on call for, in token order
RECURSIVE ExpectedKinds(_, _)
ExpectedKinds(toks, k) ==
    IF k > Len(toks)
    THEN IF toks # <<>> /\ toks[Len(toks)] # Bar THEN <<"seg">> ELSE <<>>
    ELSE IF toks[k] # Bar THEN ExpectedKinds(toks, k + 1)
    ELSE (IF k \in BarsAfterNotes(toks) THEN <<"seg", "div">> ELSE <<"bar">>)
         \o ExpectedKinds(toks, k + 1)

\* the lines generate_tab has joined when it returns
EmittedLines == IF gt.segment # <<>>
                THEN Append(gt.out_lines, Join(gt.segment, <<" ", "|", " ">>))
                ELSE gt.out_lines

\* C12: in generate_tab every step at a BarMarker with a pending segment appends
\* the segment as one line and then one divider line and empties the segment; every
\* step at a BarMarker with no pending segment appends one bare bar line and no
\* divider; a step at another token appends no line; the segment pending at the end
\* is the last line, no divider after it. Hence the lines follow the token order
\* and there are as many dividers as BarMarkers preceded by a note since the
\* previous BarMarker.
C12_BarFlushesSegment ==
    /\ [][(pc = "loop" /\ gt.i < Len(tokens)) =>
            IF tokens[gt.i + 1] = Bar
            THEN /\ gt'.segment = <<>>
                 /\ gt'.i = gt.i + 1
                 /\ gt'.out_lines =
                       IF gt.segment # <<>>
                       THEN gt.out_lines \o <<Join(gt.segment, <<" ", "|", " ">>), Divider>>
                       ELSE Append(gt.out_lines, Bar)
            ELSE /\ gt'.out_lines = gt.out_lines
                 /\ pc' = "loop" => /\ Len(gt'.segment) > Len(gt.segment)
                                    /\ gt'.i > gt.i]_vars
    /\ []((pc = "done" /\ fn = "generate_tab") =>
            /\ ret = Join(EmittedLines, <<NL>>)
            /\ [k \in 1..Len(EmittedLines) |-> LineKind(EmittedLines[k])]
                  = ExpectedKinds(tokens, 1)
            /\ Cardinality({k \in 1..Len(LinesOf(ret)) : LinesOf(ret)[k] = Divider})
                  = Cardinality(BarsAfterNotes(tokens)))

\* C12 witness: the tokens [|, C, |, C] with nothing mapped gave a bare bar line,
\* the first note's segment, a divider, and the pending segment as the last line
C12_Witness ==
    /\ pc = "done" /\ fn = "generate_tab"
    /\ tokens = <<Bar, <<"C">>, Bar, <<"C">>>>
    /\ mapping = <<>>
    /\ ret = Join(<<Bar, <<"C">> \o Unmapped, Divider, <<"C">> \o Unmapped>>, <<NL>>)

=============================================================================
